---- MODULE Spec2Model ----
(***************************************************************************)
(* A model of glone (src/src/extension.ts): the git URL classifier and     *)
(* normaliser, the workspace inspector and clone-location resolver, the    *)
(* git clone subprocess driver and the clipboard monitor.                  *)
(*                                                                         *)
(* Text is modelled as a sequence of tokens.  A token is a run of          *)
(* characters that the regular expressions of the source never split:      *)
(* a scheme ("https://"), a separator ("/", ":", "@", " ", "?"), or a run  *)
(* of word characters [\w\-\.] such as "github.com", "a" or ".git".        *)
(* A file name is such a sequence, and a path is a sequence of file names. *)
(***************************************************************************)
EXTENDS Naturals, Sequences, FiniteSets, TLC

\* ------------------------------------------------------------------------
\* Bounds of the model
\* ------------------------------------------------------------------------

\* longest path part (after scheme and host) of a URL given to normalize
MaxBody == 6

\* largest suffix -k of a folder that exists in the inspected workspace
MaxSuffix == 2

\* most chunks of standard error a git process writes
MaxChunks == 2

\* most calls of checkClipboard, and of ClipboardMonitor.start
MaxChecks == 3
MaxStarts == 2

\* most invocations of the clone command, and most calls of checkClipboard
\* while commands run
MaxTriggers == 1
MaxPolls == 2

\* ------------------------------------------------------------------------
\* Text: tokens and character classes
\* ------------------------------------------------------------------------

\* tokens made of characters of [\w\-\.] only
WordTokens ==
    { "github.com", "gitlab.com", "bitbucket.org",
      "git.h", "gitlab.h", "gitea.h", "gitiles.h", "cgit.h", "h",
      "a", "b", "foo", "garbage", "git", "repo", "repos", "scm", "projects",
      ".git" }

\* https?:\/\/
HttpSchemes == {"https://", "http://"}

SchemeTokens == HttpSchemes \cup {"ssh://", "git://"}

\* [\w\-\.\/]
WordSlash == WordTokens \cup {"/"}

\* tokens whose text contains a '/'
HasSlash(t) == t = "/" \/ t \in SchemeTokens

\* tokens whose text contains a ':'
HasColon(t) == t = ":" \/ t \in SchemeTokens

\* hosts that match git\.[\w\-\.]+ , gitlab\.[\w\-\.]+ , ... up to their end
GitDot == {"git.h"}
GitlabDot == {"gitlab.h", "gitlab.com"}
GiteaDot == {"gitea.h"}
GitilesDot == {"gitiles.h"}
CgitDot == {"cgit.h"}

\* elements of a pattern: exactly one token of a set, an optional one,
\* one or more, zero or more
One(S) == [t |-> "one", s |-> S]
Opt(S) == [t |-> "opt", s |-> S]
Plus(S) == [t |-> "plus", s |-> S]
Star(S) == [t |-> "star", s |-> S]

\* RegExp.prototype.test for a pattern anchored at both ends (^...$)
RECURSIVE Matches(_, _)
Matches(p, s) ==
    IF p = <<>> THEN s = <<>>
    ELSE LET e == Head(p)
             hit == s # <<>> /\ Head(s) \in e.s
         IN  CASE e.t = "one" -> hit /\ Matches(Tail(p), Tail(s))
               [] e.t = "opt" -> Matches(Tail(p), s)
                                 \/ (hit /\ Matches(Tail(p), Tail(s)))
               [] e.t = "plus" -> hit /\ (Matches(Tail(p), Tail(s))
                                          \/ Matches(p, Tail(s)))
               [] e.t = "star" -> Matches(Tail(p), s)
                                  \/ (hit /\ Matches(p, Tail(s)))

\* String.prototype.trim
RECURSIVE TrimLeft(_)
TrimLeft(s) == IF s # <<>> /\ Head(s) = " " THEN TrimLeft(Tail(s)) ELSE s

RECURSIVE TrimRight(_)
TrimRight(s) ==
    IF s # <<>> /\ s[Len(s)] = " " THEN TrimRight(SubSeq(s, 1, Len(s) - 1)) ELSE s

Trim(s) == TrimRight(TrimLeft(s))

\* String.prototype.startsWith / endsWith with a token-aligned argument
StartsWith(s, pre) == Len(s) >= Len(pre) /\ SubSeq(s, 1, Len(pre)) = pre
EndsWith(s, suf) ==
    Len(s) >= Len(suf) /\ SubSeq(s, Len(s) - Len(suf) + 1, Len(s)) = suf

\* ------------------------------------------------------------------------
\* GitProviderPatterns.PATTERNS
\* ------------------------------------------------------------------------

\* (?:\.git)?\/?$
GitSlashTail == <<Opt({".git"}), Opt({"/"})>>

\* ^https?:\/\/<host>\/[\w\-\.]+\/[\w\-\.]+(?:\.git)?\/?$
HostedPattern(host) ==
    <<One(HttpSchemes), One({host}), One({"/"}), Plus(WordTokens), One({"/"}),
      Plus(WordTokens)>> \o GitSlashTail

\* ^https?:\/\/<prefix>\.[\w\-\.]+\/[\w\-\.\/]+(?:\.git)?\/?$
SelfHostedPattern(hosts) ==
    <<One(HttpSchemes), One(hosts), Star(WordTokens), One({"/"}),
      Plus(WordSlash)>> \o GitSlashTail

\* ^https?:\/\/[\w\-\.]+\/<dir>\/[\w\-\.\/]+(?:\.git)?\/?$
GenericDirPattern(dirs) ==
    <<One(HttpSchemes), Plus(WordTokens), One({"/"}), One(dirs), One({"/"}),
      Plus(WordSlash)>> \o GitSlashTail

\* ^git@<host>:[\w\-\.]+\/[\w\-\.]+\.git$
HostedSshPattern(host) ==
    <<One({"git"}), One({"@"}), One({host}), One({":"}), Plus(WordTokens),
      One({"/"}), Plus(WordTokens), One({".git"})>>

PATTERNS ==
    << HostedPattern("github.com"),
       HostedPattern("gitlab.com"),
       HostedPattern("bitbucket.org"),
       SelfHostedPattern(GitDot),
       SelfHostedPattern(GitlabDot),
       SelfHostedPattern(GiteaDot),
       SelfHostedPattern(GitilesDot),
       SelfHostedPattern(CgitDot),
       \* ^https?:\/\/[\w\-\.]+\/[\w\-\.\/]+\.git\/?$
       <<One(HttpSchemes), Plus(WordTokens), One({"/"}), Plus(WordSlash),
         One({".git"}), Opt({"/"})>>,
       GenericDirPattern({"git"}),
       GenericDirPattern({"repo", "repos"}),
       GenericDirPattern({"scm"}),
       GenericDirPattern({"projects"}),
       HostedSshPattern("github.com"),
       HostedSshPattern("gitlab.com"),
       HostedSshPattern("bitbucket.org"),
       \* ^git@[\w\-\.]+:[\w\-\.\/]+\.git$
       <<One({"git"}), One({"@"}), Plus(WordTokens), One({":"}),
         Plus(WordSlash), One({".git"})>>,
       \* ^[\w\-\.]+@[\w\-\.]+:[\w\-\.\/]+\.git$
       <<Plus(WordTokens), One({"@"}), Plus(WordTokens), One({":"}),
         Plus(WordSlash), One({".git"})>>,
       \* ^ssh:\/\/git@[\w\-\.]+\/[\w\-\.\/]+(?:\.git)?\/?$
       <<One({"ssh://"}), One({"git"}), One({"@"}), Plus(WordTokens),
         One({"/"}), Plus(WordSlash)>> \o GitSlashTail,
       \* ^ssh:\/\/[\w\-\.]+@[\w\-\.]+\/[\w\-\.\/]+(?:\.git)?\/?$
       <<One({"ssh://"}), Plus(WordTokens), One({"@"}), Plus(WordTokens),
         One({"/"}), Plus(WordSlash)>> \o GitSlashTail,
       \* ^git:\/\/[\w\-\.]+\/[\w\-\.\/]+(?:\.git)?\/?$
       <<One({"git://"}), Plus(WordTokens), One({"/"}), Plus(WordSlash)>>
         \o GitSlashTail >>

\* ------------------------------------------------------------------------
\* GitUrlValidator
\* ------------------------------------------------------------------------

isValid(url) ==
    /\ Trim(url) # <<>>
    /\ \E i \in 1..Len(PATTERNS) : Matches(PATTERNS[i], Trim(url))

isKnownProvider(url) ==
    \E host \in {"github.com", "gitlab.com", "bitbucket.org"} :
        Matches(<<One(HttpSchemes), One({host}), One({"/"}), Plus(WordTokens),
                  One({"/"}), Plus(WordTokens)>>, url)

looksLikeRepositoryUrl(url) ==
    \/ Matches(<<One(HttpSchemes), Plus(WordTokens), One({"/"}),
                 Plus(WordTokens), One({"/"}), Plus(WordTokens)>>, url)
    \/ \E dirs \in {{"git"}, {"repo", "repos"}, {"scm"}, {"projects"}} :
          Matches(<<One(HttpSchemes), Plus(WordTokens), One({"/"}), One(dirs),
                    One({"/"}), Plus(WordTokens)>>, url)

\* trimmedUrl.replace(/\/$/, '')
StripTrailingSlash(s) ==
    IF s # <<>> /\ s[Len(s)] = "/" THEN SubSeq(s, 1, Len(s) - 1) ELSE s

\* a normalize that appends .git without looking for an existing suffix
normalizeNoSuffixCheck(url) ==
    LET trimmedUrl == Trim(url)
        cleanUrl == StripTrailingSlash(trimmedUrl)
    IN  IF \/ StartsWith(trimmedUrl, <<"git", "@">>)
           \/ StartsWith(trimmedUrl, <<"ssh://">>)
           \/ StartsWith(trimmedUrl, <<"git://">>)
        THEN trimmedUrl
        ELSE IF \E h \in HttpSchemes : StartsWith(trimmedUrl, <<h>>)
        THEN IF isKnownProvider(cleanUrl) \/ looksLikeRepositoryUrl(cleanUrl)
             THEN cleanUrl \o <<".git">>
             ELSE cleanUrl
        ELSE trimmedUrl

normalize(url) ==
    LET trimmedUrl == Trim(url)
        cleanUrl == StripTrailingSlash(trimmedUrl)
    IN  IF \/ StartsWith(trimmedUrl, <<"git", "@">>)
           \/ StartsWith(trimmedUrl, <<"ssh://">>)
           \/ StartsWith(trimmedUrl, <<"git://">>)
        THEN trimmedUrl
        ELSE IF \E h \in HttpSchemes : StartsWith(trimmedUrl, <<h>>)
        THEN IF EndsWith(cleanUrl, <<".git">>) THEN cleanUrl
             ELSE IF isKnownProvider(cleanUrl) THEN cleanUrl \o <<".git">>
             ELSE IF looksLikeRepositoryUrl(cleanUrl) THEN cleanUrl \o <<".git">>
             ELSE cleanUrl
        ELSE trimmedUrl

\* the positions of s holding a token that satisfies Test
Positions(s, Test(_)) == {i \in 1..Len(s) : Test(s[i])}

SetMin(S) == CHOOSE x \in S : \A y \in S : x <= y
SetMax(S) == CHOOSE x \in S : \A y \in S : x >= y

\* ([^\/]+?)(?:\.git)?  on a whole segment: the lazy group gives up a final
\* .git unless nothing else is left for it
StripGitSuffix(seg) ==
    IF Len(seg) >= 2 /\ seg[Len(seg)] = ".git"
    THEN SubSeq(seg, 1, Len(seg) - 1)
    ELSE seg

NoSlash(seg) == \A i \in 1..Len(seg) : ~HasSlash(seg[i])

\* url.includes('://')
IncludesSchemeSep(s) ==
    \/ \E i \in 1..Len(s) : s[i] \in SchemeTokens
    \/ \E i \in 1..(Len(s) - 2) : s[i] = ":" /\ s[i + 1] = "/" /\ s[i + 2] = "/"

\* what follows the ':' at position i, as /:([^\/]+\/)?([^\/]+?)(?:\.git)?$/
\* sees it: at most one '/', with text on both sides of it
SshRest(s, i) == SubSeq(s, i + 1, Len(s))
SshRestSlashes(s, i) == Positions(SshRest(s, i), LAMBDA t : t = "/")
SshRestMatches(s, i) ==
    LET r == SshRest(s, i)
        sl == SshRestSlashes(s, i)
    IN  /\ r # <<>>
        /\ Cardinality(sl) <= 1
        /\ \A j \in sl : j > 1 /\ j < Len(r)

\* the last path component as /\/([^\/]+?)(?:\.git)?(?:\/)?$/ finds it:
\* <<>> when the pattern does not match
StandardSegment(s) ==
    LET body == StripTrailingSlash(s)
        sl == Positions(body, HasSlash)
    IN  IF sl = {} THEN <<>>
        ELSE SubSeq(body, SetMax(sl) + 1, Len(body))

\* the longest tail without '/' and ':' as /([^\/\:]+?)(?:\.git)?$/ finds it
FallbackSegment(s) ==
    LET stop == Positions(s, LAMBDA t : HasSlash(t) \/ HasColon(t))
    IN  IF stop = {} THEN s ELSE SubSeq(s, SetMax(stop) + 1, Len(s))

extractRepositoryName(url) ==
    LET colons == {i \in Positions(url, LAMBDA t : t = ":") : SshRestMatches(url, i)}
        isSsh == /\ \E i \in 1..Len(url) : url[i] = "@"
                 /\ \E i \in 1..Len(url) : HasColon(url[i])
                 /\ ~IncludesSchemeSep(url)
    IN  IF isSsh /\ colons # {}
        THEN LET i == SetMin(colons)
                 r == SshRest(url, i)
                 sl == SshRestSlashes(url, i)
             IN  StripGitSuffix(IF sl = {} THEN r
                                ELSE SubSeq(r, SetMax(sl) + 1, Len(r)))
        ELSE IF StandardSegment(url) # <<>>
        THEN StripGitSuffix(StandardSegment(url))
        ELSE IF FallbackSegment(url) # <<>>
        THEN StripGitSuffix(FallbackSegment(url))
        ELSE <<"repository">>

createRepository(url) ==
    [url |-> url, name |-> extractRepositoryName(url), normalizedUrl |-> normalize(url)]

\* ------------------------------------------------------------------------
\* State
\* ------------------------------------------------------------------------

VARIABLES
    \* GitUrlValidator.normalize applied to a text, and again to its result
    urlIn, urlOnce, urlTwice, urlStage,
    \* the file system under the first workspace folder, and one call of
    \* CloneLocationResolver.resolve
    hasWorkspace, fsListFails, fsEntries, fsStatFails,
    resolveRepo, detection, location,
    \* one call of GitCloneService.clone: its arguments, the command it
    \* spawned, the git process, the listeners' state and the promise
    cloneRepo, cloneLocation, confirmedPath, gitCommand,
    procState, exitCode, pendingEvents, errorOutput, stderrSent, cloneResult,
    \* ClipboardMonitor and the GitCloneExtension it notifies
    clipboard, timer, intervals, timersMade, checks, notifications,
    currentRepository, lastCall,
    \* the runs of GitCloneExtension.executeClone and the git processes they
    \* spawned
    commands, spawns

uvars == <<urlIn, urlOnce, urlTwice, urlStage>>
rvars == <<hasWorkspace, fsListFails, fsEntries, fsStatFails, resolveRepo,
           detection, location>>
cvars == <<cloneRepo, cloneLocation, confirmedPath, gitCommand, procState,
           exitCode, pendingEvents, errorOutput, stderrSent, cloneResult>>
wvars == <<clipboard, timer, intervals, timersMade, checks, notifications,
           currentRepository, lastCall>>
xvars == <<commands, spawns>>
vars == <<uvars, rvars, cvars, wvars, xvars>>

\* an optional value: <<>> is undefined, <<x>> holds x
None == <<>>
Some(x) == <<x>>

\* ------------------------------------------------------------------------
\* normalize on bounded texts
\* ------------------------------------------------------------------------

RECURSIVE SeqsUpTo(_, _)
SeqsUpTo(S, n) ==
    IF n = 0 THEN {<<>>}
    ELSE LET shorter == SeqsUpTo(S, n - 1)
         IN  shorter \cup {Append(q, t) : q \in {r \in shorter : Len(r) = n - 1}, t \in S}

UrlPrefixes ==
    { <<"https://", "github.com">>, <<"http://", "github.com">>,
      <<"https://", "h">>, <<"https://", "h", "/", "git">>,
      <<"git", "@", "github.com", ":">>, <<"a", "@", "h", ":">>,
      <<"ssh://", "git", "@", "h">>, <<"git://", "h">>, <<>> }

BodyTokens == {"/", "a", ".git"}

Pads == {<<>>, <<" ">>}

UrlInputs ==
    { l \o pre \o body \o r :
        l \in Pads, pre \in UrlPrefixes, body \in SeqsUpTo(BodyTokens, MaxBody),
        r \in Pads }

UrlIdle ==
    /\ urlIn = <<>>
    /\ urlOnce = <<>>
    /\ urlTwice = <<>>
    /\ urlStage = "input"

NormalizeOnce ==
    /\ urlStage = "input"
    /\ urlOnce' = normalize(urlIn)
    /\ urlStage' = "once"
    /\ UNCHANGED <<urlIn, urlTwice, rvars, cvars, wvars, xvars>>

NormalizeTwice ==
    /\ urlStage = "once"
    /\ urlTwice' = normalize(urlOnce)
    /\ urlStage' = "twice"
    /\ UNCHANGED <<urlIn, urlOnce, rvars, cvars, wvars, xvars>>

\* ------------------------------------------------------------------------
\* ProjectFilePatterns, ProjectFileDetector, CloneLocationResolver
\* ------------------------------------------------------------------------

COMMON_FILES ==
    << <<"package.json">>, <<"package-lock.json">>, <<"pnpm-lock.yaml">>,
       <<"yarn.lock">>, <<"composer.json">>, <<"Gemfile">>,
       <<"requirements.txt">>, <<"Pipfile">>, <<"Cargo.toml">>, <<"go.mod">>,
       <<"pom.xml">>, <<"build.gradle">>, <<"Makefile">>, <<"CMakeLists.txt">>,
       <<"tsconfig.json">>, <<"jsconfig.json">>, <<".gitignore">>,
       <<"README.md">>, <<"README.rst">>, <<"README.txt">>, <<"LICENSE">>,
       <<"LICENSE.txt">>, <<"LICENSE.md">>, <<".env">>, <<".env.example">>,
       <<"docker-compose.yml">>, <<"Dockerfile">>, <<".git">> >>

COMMON_DIRECTORIES ==
    << <<"src">>, <<"lib">>, <<"dist">>, <<"build">>, <<"out">>, <<"target">>,
       <<"bin">>, <<"node_modules">>, <<".git">>, <<".vscode">>, <<"test">>,
       <<"tests">>, <<"spec">>, <<"docs">>, <<"public">>, <<"assets">>,
       <<"static">> >>

Range(q) == {q[i] : i \in 1..Len(q)}

\* workspaceFolders[0].uri.fsPath and os.homedir(), as paths
WorkspacePath == << <<"ws">> >>
HomeDir == << <<"home">> >>

\* `${repository.name}-${counter}`
Suffixed(name, counter) == name \o <<"-", ToString(counter)>>

\* path.join(dir, name) for a name without separators
PathJoin(dir, name) == Append(dir, name)

\* the repository names of the model
RepoNames == {<<"foo">>}

\* the names an entry of the workspace folder can have in the model
MarkerEntries == {<<"package.json">>, <<".git">>, <<"src">>}
PlainEntries == {<<"notes.txt">>}
FolderEntries ==
    RepoNames \cup {Suffixed(n, k) : n \in RepoNames, k \in 1..MaxSuffix}
EntryNames == MarkerEntries \cup PlainEntries \cup FolderEntries

\* what an entry of the workspace folder is
KindOf(name) == IF name \in DOMAIN fsEntries THEN fsEntries[name] ELSE "none"

\* fs.readdirSync(workspacePath)
ReadDir == {n \in DOMAIN fsEntries : fsEntries[n] # "none"}

\* fs.statSync(fullPath).isDirectory(), "throws" when statSync throws
StatIsDirectory(name) ==
    IF name \in fsStatFails \/ KindOf(name) = "none" THEN "throws"
    ELSE IF KindOf(name) = "dir" THEN "yes" ELSE "no"

\* fs.existsSync(path.join(workspacePath, name))
ExistsSync(name) == KindOf(name) # "none"

DirMarker(dir) == dir \o <<"/">>

\* a detect whose catch block reports a clean workspace
detectFailOpen ==
    IF fsListFails
    THEN [hasCommonFiles |-> FALSE, detectedFiles |-> <<>>]
    ELSE LET files == SelectSeq(COMMON_FILES, LAMBDA f : f \in ReadDir)
             dirs == SelectSeq(COMMON_DIRECTORIES,
                               LAMBDA d : d \in ReadDir /\ StatIsDirectory(d) = "yes")
             detectedFiles == files \o [i \in 1..Len(dirs) |-> DirMarker(dirs[i])]
         IN  [hasCommonFiles |-> Len(detectedFiles) > 0,
              detectedFiles |-> detectedFiles]

\* ProjectFileDetector.detect(workspacePath) on the current file system
detect ==
    IF fsListFails
    THEN [hasCommonFiles |-> TRUE, detectedFiles |-> <<>>]
    ELSE LET files == SelectSeq(COMMON_FILES, LAMBDA f : f \in ReadDir)
             dirs == SelectSeq(COMMON_DIRECTORIES,
                               LAMBDA d : d \in ReadDir /\ StatIsDirectory(d) = "yes")
             detectedFiles == files \o [i \in 1..Len(dirs) |-> DirMarker(dirs[i])]
         IN  [hasCommonFiles |-> Len(detectedFiles) > 0,
              detectedFiles |-> detectedFiles]

resolveForNoWorkspace(repository) ==
    [targetPath |-> PathJoin(HomeDir, repository.name),
     cloneToRoot |-> FALSE,
     message |-> <<"Clone ">> \o repository.name
                 \o <<" to new folder in home directory?">>]

\* a loop that numbers the folders from 0
RECURSIVE NextFreeNameFromZero(_, _, _)
NextFreeNameFromZero(repoName, candidate, counter) ==
    IF ExistsSync(candidate)
    THEN NextFreeNameFromZero(repoName, Suffixed(repoName, counter - 1), counter + 1)
    ELSE candidate

\* the while loop of resolveForExistingProject: counter is the next suffix
RECURSIVE NextFreeName(_, _, _)
NextFreeName(repoName, candidate, counter) ==
    IF ExistsSync(candidate)
    THEN NextFreeName(repoName, Suffixed(repoName, counter), counter + 1)
    ELSE candidate

resolveForExistingProject(repository) ==
    [targetPath |-> PathJoin(WorkspacePath,
                             NextFreeName(repository.name, repository.name, 1)),
     cloneToRoot |-> FALSE,
     message |-> <<"Cloning ">> \o repository.name
                 \o <<" to new folder (avoiding conflicts)">>]

resolveForCleanWorkspace(repository) ==
    [targetPath |-> WorkspacePath,
     cloneToRoot |-> TRUE,
     message |-> <<"Clone ">> \o repository.name
                 \o <<" contents to current workspace root? (No project files detected)">>]

\* a resolve that takes the clean-workspace branch on any workspace
resolveIgnoringDetection(repository) ==
    IF ~hasWorkspace THEN resolveForNoWorkspace(repository)
    ELSE resolveForCleanWorkspace(repository)

\* CloneLocationResolver.resolve(repository, workspaceFolders)
resolve(repository) ==
    IF ~hasWorkspace THEN resolveForNoWorkspace(repository)
    ELSE IF detect.hasCommonFiles THEN resolveForExistingProject(repository)
    ELSE resolveForCleanWorkspace(repository)

\* a repository with a given name
RepoNamed(name) ==
    createRepository(<<"https://", "github.com", "/", "a", "/">> \o name)

ResolverIdle ==
    /\ hasWorkspace = FALSE
    /\ fsListFails = FALSE
    /\ fsEntries = [n \in EntryNames |-> "none"]
    /\ fsStatFails = {}
    /\ resolveRepo = None
    /\ detection = None
    /\ location = None

\* one call of resolve; detection records what detect returned to it
Resolve ==
    /\ location = None
    /\ \E name \in RepoNames :
          /\ resolveRepo' = Some(RepoNamed(name))
          /\ location' = Some(resolve(RepoNamed(name)))
    /\ detection' = IF hasWorkspace THEN Some(detect) ELSE None
    /\ UNCHANGED <<hasWorkspace, fsListFails, fsEntries, fsStatFails, uvars, cvars, wvars, xvars>>

\* ------------------------------------------------------------------------
\* GitCloneService
\* ------------------------------------------------------------------------

\* path.basename and path.dirname of an absolute path; <<>> is "/"
Basename(path) == IF path = <<>> THEN <<>> ELSE path[Len(path)]
Dirname(path) == IF path = <<>> THEN <<>> ELSE SubSeq(path, 1, Len(path) - 1)

\* a prepareGitCommand that does not compare the confirmed path
prepareGitCommandAnyPath(repository, loc, targetPath) ==
    IF loc.cloneToRoot
    THEN [gitArgs |-> <<"clone", repository.normalizedUrl, <<".">>>>,
          workingDir |-> targetPath]
    ELSE [gitArgs |-> <<"clone", repository.normalizedUrl, Basename(targetPath)>>,
          workingDir |-> Dirname(targetPath)]

prepareGitCommand(repository, loc, targetPath) ==
    IF loc.cloneToRoot /\ targetPath = loc.targetPath
    THEN [gitArgs |-> <<"clone", repository.normalizedUrl, <<".">>>>,
          workingDir |-> targetPath]
    ELSE [gitArgs |-> <<"clone", repository.normalizedUrl, Basename(targetPath)>>,
          workingDir |-> Dirname(targetPath)]

createSuccessResult(repository, loc, targetPath) ==
    [success |-> TRUE,
     message |-> IF loc.cloneToRoot
                 THEN <<"Successfully cloned ">> \o repository.name
                      \o <<" to workspace root (no conflicts detected)">>
                 ELSE <<"Successfully cloned ">> \o repository.name
                      \o <<" to new folder">>,
     targetPath |-> Some(targetPath)]

\* a 'close' listener that takes every exit for a success
closeResultAlwaysSuccess(code) ==
    createSuccessResult(cloneRepo[1], cloneLocation[1], confirmedPath)

\* what the 'close' listener passes to resolve
closeResult(code) ==
    IF code = "0"
    THEN createSuccessResult(cloneRepo[1], cloneLocation[1], confirmedPath)
    ELSE [success |-> FALSE,
          message |-> <<"Failed to clone repository: ">>
                      \o (IF errorOutput # <<>> THEN errorOutput
                          ELSE <<"Unknown error">>),
          targetPath |-> None]

\* error.message of a spawn that failed
SpawnErrorMessage == "spawn git ENOENT"

\* what the 'error' listener passes to resolve
errorResult ==
    [success |-> FALSE,
     message |-> <<"Failed to start git process: ", SpawnErrorMessage>>,
     targetPath |-> None]

\* resolve of the promise: only the first call settles it
Settle(value) == IF cloneResult = None THEN Some(value) ELSE cloneResult

\* what clone can be called with: a location resolve can return, and the
\* path the input box returned for it
CloneLocations(repository) ==
    { resolveForNoWorkspace(repository), resolveForExistingProject(repository),
      resolveForCleanWorkspace(repository) }

ConfirmedPaths(loc) ==
    { loc.targetPath, WorkspacePath, PathJoin(WorkspacePath, <<"b">>), <<>> }

StderrChunks == {"fatal: repository not found", "fatal: unable to access"}

ExitCodes == {"0", "1", "128", "null"}

\* the exit code 'close' carries after a failed spawn (the negated errno)
SpawnFailedCode == "-2"

CloneIdle ==
    /\ cloneRepo = None
    /\ cloneLocation = None
    /\ confirmedPath = <<>>
    /\ gitCommand = None
    /\ procState = "none"
    /\ exitCode = "none"
    /\ pendingEvents = {}
    /\ errorOutput = <<>>
    /\ stderrSent = <<>>
    /\ cloneResult = None

\* clone(repository, location, targetPath) up to the return of the promise:
\* the command is prepared and spawned, the listeners are attached.  The
\* process either runs, or fails to start: then 'error' and 'close' are both
\* to be emitted.
CloneCall ==
    /\ procState = "none"
    /\ \E name \in RepoNames :
       \E loc \in CloneLocations(RepoNamed(name)) :
       \E path \in ConfirmedPaths(loc) :
          /\ cloneRepo' = Some(RepoNamed(name))
          /\ cloneLocation' = Some(loc)
          /\ confirmedPath' = path
          /\ gitCommand' = Some(prepareGitCommand(RepoNamed(name), loc, path))
    /\ \/ /\ procState' = "running"
          /\ UNCHANGED <<exitCode, pendingEvents>>
       \/ /\ procState' = "spawnfailed"
          /\ exitCode' = SpawnFailedCode
          /\ pendingEvents' = {"error", "close"}
    /\ errorOutput' = <<>>
    /\ UNCHANGED <<stderrSent, cloneResult, uvars, rvars, wvars, xvars>>

\* gitProcess.stderr 'data': a chunk the process wrote reaches the listener
StderrData ==
    /\ procState \in {"running", "exited"}
    /\ Len(stderrSent) < MaxChunks
    /\ \E chunk \in StderrChunks :
          /\ stderrSent' = Append(stderrSent, chunk)
          /\ errorOutput' = errorOutput \o <<chunk>>
    /\ UNCHANGED <<cloneRepo, cloneLocation, confirmedPath, gitCommand, procState,
                   exitCode, pendingEvents, cloneResult, uvars, rvars, wvars, xvars>>

\* the git process ends; 'close' follows once its streams have ended
ProcessExit ==
    /\ procState = "running"
    /\ \E code \in ExitCodes : exitCode' = code
    /\ procState' = "exited"
    /\ pendingEvents' = {"close"}
    /\ UNCHANGED <<cloneRepo, cloneLocation, confirmedPath, gitCommand,
                   errorOutput, stderrSent, cloneResult, uvars, rvars, wvars, xvars>>

\* gitProcess.on('close', ...)
OnClose ==
    /\ "close" \in pendingEvents
    /\ pendingEvents' = pendingEvents \ {"close"}
    /\ cloneResult' = Settle(closeResult(exitCode))
    /\ procState' = IF procState = "exited" THEN "closed" ELSE procState
    /\ UNCHANGED <<cloneRepo, cloneLocation, confirmedPath, gitCommand, exitCode,
                   errorOutput, stderrSent, uvars, rvars, wvars, xvars>>

\* gitProcess.on('error', ...)
OnError ==
    /\ "error" \in pendingEvents
    /\ pendingEvents' = pendingEvents \ {"error"}
    /\ cloneResult' = Settle(errorResult)
    /\ UNCHANGED <<cloneRepo, cloneLocation, confirmedPath, gitCommand, procState,
                   exitCode, errorOutput, stderrSent, uvars, rvars, wvars, xvars>>

\* ------------------------------------------------------------------------
\* ClipboardMonitor, and the callbacks of GitCloneExtension
\* ------------------------------------------------------------------------

GithubAB == <<"https://", "github.com", "/", "a", "/", "b">>
GithubBA == <<"https://", "github.com", "/", "b", "/", "a">>

\* what the clipboard can hold
ClipboardTexts == {GithubAB, GithubBA, <<"garbage">>, <<>>}

WatcherIdle ==
    /\ clipboard = <<>>
    /\ timer = 0
    /\ intervals = {}
    /\ timersMade = 0
    /\ checks = <<>>
    /\ notifications = <<>>
    /\ currentRepository = None
    /\ lastCall = "none"

\* checkClipboard up to its await: readText has been called
BeginCheck == Append(checks, [st |-> "reading", ok |-> TRUE, text |-> <<>>])

\* ClipboardMonitor.start: one check at once, then a new interval timer whose
\* id replaces the one held in this.timer
Start ==
    /\ timersMade < MaxStarts
    /\ Len(checks) < MaxChecks
    /\ checks' = BeginCheck
    /\ timersMade' = timersMade + 1
    /\ timer' = timersMade + 1
    /\ intervals' = intervals \cup {timersMade + 1}
    /\ lastCall' = "start"
    /\ UNCHANGED <<clipboard, notifications, currentRepository, uvars, rvars, cvars, xvars>>

\* ClipboardMonitor.stop
Stop ==
    /\ IF timer # 0
       THEN intervals' = intervals \ {timer} /\ timer' = 0
       ELSE UNCHANGED <<intervals, timer>>
    /\ lastCall' = "stop"
    /\ UNCHANGED <<clipboard, timersMade, checks, notifications,
                   currentRepository, uvars, rvars, cvars, xvars>>

\* an interval timer that was not cleared fires: () => this.checkClipboard()
Tick ==
    /\ \E id \in intervals : TRUE
    /\ Len(checks) < MaxChecks
    /\ checks' = BeginCheck
    /\ UNCHANGED <<clipboard, timer, intervals, timersMade, notifications,
                   currentRepository, lastCall, uvars, rvars, cvars, xvars>>

\* the host serves a pending readText: it reads the clipboard, or fails
ReadText ==
    \E n \in 1..Len(checks) :
        /\ checks[n].st = "reading"
        /\ \/ checks' = [checks EXCEPT ![n] =
                            [st |-> "read", ok |-> TRUE, text |-> clipboard]]
           \/ checks' = [checks EXCEPT ![n] =
                            [st |-> "read", ok |-> FALSE, text |-> <<>>]]
        /\ UNCHANGED <<clipboard, timer, intervals, timersMade, notifications,
                       currentRepository, lastCall, uvars, rvars, cvars, xvars>>

\* the notification checkClipboard makes for what readText gave it
NotificationFor(n, check) ==
    IF check.ok /\ check.text # <<>> /\ isValid(check.text)
    THEN [tick |-> n, kind |-> "detected",
          repo |-> Some(createRepository(check.text))]
    ELSE [tick |-> n, kind |-> "noRepo", repo |-> None]

\* the awaited readText of check n settles and checkClipboard runs to its
\* end: onRepositoryDetected or onNoRepository of GitCloneExtension
FinishCheck ==
    \E n \in 1..Len(checks) :
        /\ checks[n].st = "read"
        /\ checks' = [checks EXCEPT ![n].st = "done"]
        /\ notifications' = Append(notifications, NotificationFor(n, checks[n]))
        /\ currentRepository' = NotificationFor(n, checks[n]).repo
        /\ UNCHANGED <<clipboard, timer, intervals, timersMade, lastCall,
                       uvars, rvars, cvars, xvars>>

\* the user copies something
Copy ==
    /\ \E text \in ClipboardTexts : text # clipboard /\ clipboard' = text
    /\ UNCHANGED <<timer, intervals, timersMade, checks, notifications,
                   currentRepository, lastCall, uvars, rvars, cvars, xvars>>

\* ------------------------------------------------------------------------
\* GitCloneExtension.executeClone, the command glone.cloneFromClipboard
\* ------------------------------------------------------------------------

CommandIdle ==
    /\ commands = <<>>
    /\ spawns = <<>>

\* what showInputBox can return: undefined when the box is dismissed, the
\* empty string, or a path, here the suggested one
Dismissed == [kind |-> "undefined", path |-> <<>>]
EmptyString == [kind |-> "empty", path |-> <<>>]
Typed(path) == [kind |-> "path", path |-> path]

InputBoxAnswers(loc) ==
    {Dismissed, EmptyString, Typed(loc.targetPath)}

\* a test that lets the empty string through
FalsyOnlyUndefined(answer) == answer.kind = "undefined"

\* !confirmedPath
Falsy(answer) == answer.kind \in {"undefined", "empty"}

NoValidUrlMessage == <<"No valid git repository URL found in clipboard">>
CloneFailedMessage == <<"Clone failed: ", "Unknown error occurred">>

\* what the promise of GitCloneService.clone can settle with
CloneOutcomes(repository, loc, targetPath) ==
    { createSuccessResult(repository, loc, targetPath),
      [success |-> FALSE,
       message |-> <<"Failed to clone repository: ", "Unknown error">>,
       targetPath |-> None],
      errorResult }

\* a command that clones the repository the extension holds, when it holds one
RepositoryToCloneHeld ==
    IF currentRepository # None THEN currentRepository[1]
    ELSE createRepository(clipboard)

\* the repository executeClone makes of the text readText gave it
RepositoryToClone == createRepository(clipboard)

\* GitCloneExtension.activate: the command is registered and the monitor is
\* started, once
Activate == timersMade = 0 /\ Start

\* a tick of the monitor while commands run
PollTick == Len(checks) < MaxPolls /\ Tick

\* the command is invoked: executeClone runs up to its await of readText.
\* held is currentRepository at that moment, which the status bar shows.
\* The command is registered by activate, which starts the monitor.
Trigger ==
    /\ lastCall = "start"
    /\ Len(commands) < MaxTriggers
    /\ commands' = Append(commands,
                          [st |-> "reading", held |-> currentRepository,
                           text |-> None, repository |-> None,
                           location |-> None, answer |-> None,
                           result |-> None, shown |-> <<>>])
    /\ UNCHANGED <<spawns, uvars, rvars, cvars, wvars>>

\* the first invocation of the command
FirstTrigger == commands = <<>> /\ Trigger

\* the host serves the readText of a command and executeClone goes on to its
\* next await: the text is rejected, or a repository is made of it, resolve
\* places it and the input box is shown.  A rejected readText goes to the
\* catch block.
CommandReadText ==
    \E n \in 1..Len(commands) :
        /\ commands[n].st = "reading"
        /\ \/ commands' = [commands EXCEPT ![n].st = "done",
                                           ![n].shown = CloneFailedMessage]
           \/ IF clipboard = <<>> \/ ~isValid(clipboard)
              THEN commands' = [commands EXCEPT ![n].st = "done",
                                                ![n].text = Some(clipboard),
                                                ![n].shown = NoValidUrlMessage]
              ELSE commands' =
                      [commands EXCEPT
                          ![n].st = "confirming",
                          ![n].text = Some(clipboard),
                          ![n].repository = Some(RepositoryToClone),
                          ![n].location = Some(resolve(RepositoryToClone))]
        /\ UNCHANGED <<spawns, uvars, rvars, cvars, wvars>>

\* the input box returns and executeClone goes on: it returns on a falsy
\* answer, else GitCloneService.clone prepares the command and spawns git
Confirm ==
    \E n \in 1..Len(commands) :
        /\ commands[n].st = "confirming"
        /\ \E answer \in InputBoxAnswers(commands[n].location[1]) :
              IF Falsy(answer)
              THEN /\ commands' = [commands EXCEPT ![n].st = "done",
                                                   ![n].answer = Some(answer)]
                   /\ UNCHANGED spawns
              ELSE /\ commands' = [commands EXCEPT ![n].st = "cloning",
                                                   ![n].answer = Some(answer)]
                   /\ spawns' = Append(spawns,
                         [command |-> n,
                          repository |-> commands[n].repository[1],
                          git |-> prepareGitCommand(commands[n].repository[1],
                                                    commands[n].location[1],
                                                    answer.path)])
        /\ UNCHANGED <<uvars, rvars, cvars, wvars>>

\* the promise of clone settles and showCloneResult shows its message
CloneSettled ==
    \E n \in 1..Len(commands) :
        /\ commands[n].st = "cloning"
        /\ \E result \in CloneOutcomes(commands[n].repository[1],
                                       commands[n].location[1],
                                       commands[n].answer[1].path) :
              commands' = [commands EXCEPT ![n].st = "done",
                                           ![n].result = Some(result),
                                           ![n].shown = result.message]
        /\ UNCHANGED <<spawns, uvars, rvars, cvars, wvars>>

\* ------------------------------------------------------------------------
\* Specifications
\* ------------------------------------------------------------------------

InitUrl ==
    /\ urlIn \in UrlInputs
    /\ urlOnce = <<>>
    /\ urlTwice = <<>>
    /\ urlStage = "input"
    /\ ResolverIdle
    /\ CloneIdle
    /\ WatcherIdle
    /\ CommandIdle

NextUrl == NormalizeOnce \/ NormalizeTwice

SpecUrl == InitUrl /\ [][NextUrl]_vars

InitResolver ==
    /\ hasWorkspace \in BOOLEAN
    /\ fsListFails \in BOOLEAN
    /\ fsEntries \in [EntryNames -> {"none", "file", "dir"}]
    /\ \A n \in PlainEntries : fsEntries[n] # "dir"
    /\ \A n \in FolderEntries : fsEntries[n] # "file"
    /\ fsStatFails \in SUBSET {n \in MarkerEntries : fsEntries[n] # "none"}
    /\ resolveRepo = None
    /\ detection = None
    /\ location = None
    /\ UrlIdle
    /\ CloneIdle
    /\ WatcherIdle
    /\ CommandIdle

NextResolver == Resolve

SpecResolver == InitResolver /\ [][NextResolver]_vars

InitClone == UrlIdle /\ ResolverIdle /\ CloneIdle /\ WatcherIdle /\ CommandIdle

NextClone == CloneCall \/ StderrData \/ ProcessExit \/ OnClose \/ OnError

SpecClone == InitClone /\ [][NextClone]_vars

InitWatcher ==
    /\ clipboard \in ClipboardTexts
    /\ timer = 0
    /\ intervals = {}
    /\ timersMade = 0
    /\ checks = <<>>
    /\ notifications = <<>>
    /\ currentRepository = None
    /\ lastCall = "none"
    /\ UrlIdle
    /\ ResolverIdle
    /\ CloneIdle
    /\ CommandIdle

NextWatcher == Start \/ Stop \/ Tick \/ ReadText \/ FinishCheck \/ Copy

SpecWatcher == InitWatcher /\ [][NextWatcher]_vars

\* the extension on a workspace that is absent, clean, or holds a project:
\* it is activated, the user copies texts and invokes the command
InitCommand ==
    /\ clipboard \in ClipboardTexts
    /\ timer = 0
    /\ intervals = {}
    /\ timersMade = 0
    /\ checks = <<>>
    /\ notifications = <<>>
    /\ currentRepository = None
    /\ lastCall = "none"
    /\ hasWorkspace \in BOOLEAN
    /\ fsListFails = FALSE
    /\ fsEntries \in {[n \in EntryNames |-> "none"],
                      [n \in EntryNames |->
                          IF n = <<"package.json">> THEN "file" ELSE "none"]}
    /\ ~hasWorkspace => \A n \in EntryNames : fsEntries[n] = "none"
    /\ fsStatFails = {}
    /\ resolveRepo = None
    /\ detection = None
    /\ location = None
    /\ UrlIdle
    /\ CloneIdle
    /\ CommandIdle

\* the first check of the monitor, and the runs of the command
NextCommand ==
    \/ Activate \/ ReadText \/ FinishCheck \/ Copy
    \/ Trigger \/ CommandReadText \/ Confirm \/ CloneSettled

SpecCommand == InitCommand /\ [][NextCommand]_vars

\* the extension on a workspace that holds a project
InitExtension ==
    /\ InitCommand
    /\ hasWorkspace
    /\ fsEntries[<<"package.json">>] = "file"

\* the monitor with its ticks, and the first run of the command
NextExtension ==
    \/ Activate \/ PollTick \/ ReadText \/ FinishCheck \/ Copy
    \/ FirstTrigger \/ CommandReadText \/ Confirm \/ CloneSettled

SpecExtension == InitExtension /\ [][NextExtension]_vars

\* ------------------------------------------------------------------------
\* Properties of normalize (SpecUrl)
\* ------------------------------------------------------------------------

\* https://github.com/{owner}/{repo} without a .git suffix
GithubOwnerRepo(x) ==
    /\ Matches(<<One(HttpSchemes), One({"github.com"}), One({"/"}),
                 Plus(WordTokens), One({"/"}), Plus(WordTokens)>>, x)
    /\ ~EndsWith(x, <<".git">>)

\* git@..., ssh://..., git://... and user@host:path.git
SshOrGitForm(x) ==
    \/ StartsWith(x, <<"git", "@">>)
    \/ StartsWith(x, <<"ssh://">>)
    \/ StartsWith(x, <<"git://">>)
    \/ Matches(<<Plus(WordTokens), One({"@"}), Plus(WordTokens), One({":"}),
                 Plus(WordSlash), One({".git"})>>, x)

HttpForm(x) == \E h \in HttpSchemes : StartsWith(x, <<h>>)

\* C10: a recognized https://github.com/{owner}/{repo} without .git is
\* normalized to the same URL with .git appended, and normalizing that result
\* again changes nothing; exactly one trailing slash of an http(s) URL is
\* removed, before anything else is decided, and nothing but .git is ever
\* appended; an http(s) URL that ends in .git, and any
\* SSH-shorthand, ssh:// or git:// text, comes back as it was given (without
\* the white space around it, which the classifier ignores too).
C10_NormalizeGithub ==
    LET x == Trim(urlIn)
        y == StripTrailingSlash(x)
    IN  /\ urlStage # "input" =>
              /\ GithubOwnerRepo(y) =>
                    isValid(urlIn) /\ urlOnce = y \o <<".git">>
              /\ HttpForm(x) => urlOnce \in {y, y \o <<".git">>}
              /\ HttpForm(x) /\ EndsWith(y, <<".git">>) => urlOnce = y
              /\ SshOrGitForm(x) => urlOnce = x
        /\ urlStage = "twice" /\ GithubOwnerRepo(y) => urlTwice = urlOnce

\* https://github.com/a/a/ was normalized twice
C10_Witness ==
    /\ urlStage = "twice"
    /\ urlIn = <<"https://", "github.com", "/", "a", "/", "a", "/">>
    /\ urlTwice = <<"https://", "github.com", "/", "a", "/", "a", ".git">>

\* ------------------------------------------------------------------------
\* Properties of detect and resolve (SpecResolver)
\* ------------------------------------------------------------------------

\* the placement mode a CloneLocation stands for
Mode(loc) ==
    IF loc.cloneToRoot THEN "MergeIntoRoot"
    ELSE IF EndsWith(loc.message, <<" to new folder in home directory?">>)
    THEN "NewInHome"
    ELSE "NewSubfolder"

\* a marker filename is present as a file, or a marker directory name as a
\* directory
MarkerPresentByKind ==
    \/ \E f \in Range(COMMON_FILES) : KindOf(f) = "file"
    \/ \E d \in Range(COMMON_DIRECTORIES) : KindOf(d) = "dir"

\* a marker filename is listed (as an entry of any kind), or a marker directory
\* name is listed and statSync reports a directory
MarkerSeen ==
    \/ \E f \in Range(COMMON_FILES) : KindOf(f) # "none"
    \/ \E d \in Range(COMMON_DIRECTORIES) : KindOf(d) = "dir" /\ d \notin fsStatFails

\* an I/O failure happens while the workspace folder is inspected: the listing
\* fails, or the statSync of a listed marker directory name does
InspectionFails ==
    \/ fsListFails
    \/ \E d \in Range(COMMON_DIRECTORIES) : d \in ReadDir /\ d \in fsStatFails

\* C6 as claimed: the mode follows from the markers present by kind.
C6_ModeByKind ==
    location # None =>
        LET loc == location[1]
            repo == resolveRepo[1]
        IN  /\ ~hasWorkspace =>
                  /\ Mode(loc) = "NewInHome"
                  /\ loc.targetPath = PathJoin(HomeDir, repo.name)
            /\ hasWorkspace /\ MarkerPresentByKind => Mode(loc) = "NewSubfolder"
            /\ hasWorkspace /\ ~fsListFails /\ ~MarkerPresentByKind =>
                  /\ Mode(loc) = "MergeIntoRoot"
                  /\ loc.targetPath = WorkspacePath
            /\ Mode(loc) = "MergeIntoRoot" =>
                  loc.targetPath = WorkspacePath /\ ~MarkerPresentByKind

\* C6, amended: without a workspace folder the mode is NewInHome and the
\* target {home}/{repo.name}; with a folder whose listing fails, or lists a
\* marker filename (whatever kind of entry it is) or a marker directory name
\* that statSync reports as a directory, the mode is NewSubfolder; with a
\* readable folder that shows none of these, the mode is MergeIntoRoot and the
\* target the folder itself.  So MergeIntoRoot always targets the inspected
\* folder, and the inspection saw no marker in it.
C6_ModeBySeen ==
    location # None =>
        LET loc == location[1]
            repo == resolveRepo[1]
        IN  /\ ~hasWorkspace =>
                  /\ Mode(loc) = "NewInHome"
                  /\ loc.targetPath = PathJoin(HomeDir, repo.name)
            /\ hasWorkspace /\ (fsListFails \/ MarkerSeen) =>
                  Mode(loc) = "NewSubfolder"
            /\ hasWorkspace /\ ~fsListFails /\ ~MarkerSeen =>
                  /\ Mode(loc) = "MergeIntoRoot"
                  /\ loc.targetPath = WorkspacePath
            /\ Mode(loc) = "MergeIntoRoot" =>
                  /\ hasWorkspace /\ ~fsListFails /\ ~MarkerSeen
                  /\ loc.targetPath = WorkspacePath

\* resolve chose NewSubfolder for a folder whose only marker is a directory
\* named package.json
C6_Witness ==
    /\ location # None
    /\ hasWorkspace /\ ~fsListFails
    /\ KindOf(<<"package.json">>) = "dir"
    /\ \A n \in MarkerEntries \ {<<"package.json">>} : KindOf(n) = "none"
    /\ Mode(location[1]) = "NewSubfolder"

\* C7: in NewSubfolder mode the target is {root}/{repo.name} when that does
\* not exist, and otherwise {root}/{repo.name}-k for the least k >= 1 whose
\* path does not exist; the target does not exist when it is chosen.
C7_FirstFreeSuffix ==
    (location # None /\ Mode(location[1]) = "NewSubfolder") =>
        LET name == resolveRepo[1].name
            target == location[1].targetPath
        IN  /\ Len(target) = Len(WorkspacePath) + 1
            /\ SubSeq(target, 1, Len(WorkspacePath)) = WorkspacePath
            /\ ~ExistsSync(target[Len(target)])
            /\ IF ~ExistsSync(name) THEN target[Len(target)] = name
               ELSE \E k \in 1..(MaxSuffix + 1) :
                       /\ target[Len(target)] = Suffixed(name, k)
                       /\ \A j \in 1..(k - 1) : ExistsSync(Suffixed(name, j))

\* foo and foo-1 exist and foo-2 was chosen
C7_Witness ==
    /\ location # None
    /\ ExistsSync(<<"foo">>) /\ ExistsSync(<<"foo", "-", "1">>)
    /\ location[1].targetPath = PathJoin(WorkspacePath, <<"foo", "-", "2">>)

\* C9 as claimed: any I/O failure of the inspection, a failing statSync
\* included, gives hasCommonFiles = true with no detected files, and resolve
\* does not choose MergeIntoRoot.
C9_AnyFailureIsConservative ==
    (location # None /\ hasWorkspace /\ InspectionFails) =>
        /\ detection = Some([hasCommonFiles |-> TRUE, detectedFiles |-> <<>>])
        /\ Mode(location[1]) = "NewSubfolder"

\* C9, amended: when the listing of the workspace folder fails, detect
\* returns hasCommonFiles = true with no detected files and resolve chooses
\* NewSubfolder, never MergeIntoRoot.  A failing statSync of a listed marker
\* directory name is not such a failure: that name is left out and the other
\* entries decide.
C9_ListFailureIsConservative ==
    (location # None /\ hasWorkspace) =>
        /\ detection # None
        /\ fsListFails =>
              /\ detection[1] = [hasCommonFiles |-> TRUE, detectedFiles |-> <<>>]
              /\ Mode(location[1]) = "NewSubfolder"
        /\ ~fsListFails =>
              /\ \A d \in fsStatFails :
                    DirMarker(d) \notin Range(detection[1].detectedFiles)
              /\ detection[1].hasCommonFiles <=> MarkerSeen

\* resolve ran on a workspace folder whose listing fails
C9_Witness ==
    /\ location # None
    /\ hasWorkspace /\ fsListFails
    /\ detection = Some([hasCommonFiles |-> TRUE, detectedFiles |-> <<>>])

\* ------------------------------------------------------------------------
\* Properties of clone (SpecClone)
\* ------------------------------------------------------------------------

C5_OutcomeFollowsExitCode ==
    /\ procState \in {"running", "exited"} => cloneResult = None
    /\ procState = "closed" =>
          /\ cloneResult # None
          /\ LET r == cloneResult[1]
                 name == cloneRepo[1].name
             IN  IF exitCode = "0"
                 THEN /\ r.success = TRUE
                      /\ r.targetPath = Some(confirmedPath)
                      /\ r.message =
                           IF Mode(cloneLocation[1]) = "MergeIntoRoot"
                           THEN <<"Successfully cloned ">> \o name
                                \o <<" to workspace root (no conflicts detected)">>
                           ELSE <<"Successfully cloned ">> \o name
                                \o <<" to new folder">>
                 ELSE /\ r.success = FALSE
                      /\ r.targetPath = None
                      /\ r.message =
                           <<"Failed to clone repository: ">>
                           \o (IF stderrSent = <<>> THEN <<"Unknown error">>
                               ELSE stderrSent)

\* git wrote 'fatal: repository not found', exited with 128, and clone failed
C5_Witness ==
    /\ procState = "closed"
    /\ exitCode = "128"
    /\ stderrSent = <<"fatal: repository not found">>
    /\ cloneResult # None
    /\ cloneResult[1].success = FALSE

\* C8: git is started as `clone <normalizedUrl> .` in the confirmed path
\* exactly when the location is MergeIntoRoot and the confirmed path is the
\* location's own target path; in every other case as
\* `clone <normalizedUrl> <basename of the confirmed path>` in the parent
\* directory of the confirmed path.
C8_GitCommand ==
    gitCommand # None =>
        LET loc == cloneLocation[1]
            url == cloneRepo[1].normalizedUrl
        IN  IF Mode(loc) = "MergeIntoRoot" /\ confirmedPath = loc.targetPath
            THEN gitCommand[1] = [gitArgs |-> <<"clone", url, <<".">>>>,
                                  workingDir |-> confirmedPath]
            ELSE gitCommand[1] =
                    [gitArgs |-> <<"clone", url, Basename(confirmedPath)>>,
                     workingDir |-> Dirname(confirmedPath)]

\* a MergeIntoRoot location whose path the user changed to {root}/b
C8_Witness ==
    /\ gitCommand # None
    /\ Mode(cloneLocation[1]) = "MergeIntoRoot"
    /\ confirmedPath = PathJoin(WorkspacePath, <<"b">>)
    /\ gitCommand[1].workingDir = WorkspacePath

\* ------------------------------------------------------------------------
\* Properties of the clipboard monitor (SpecWatcher)
\* ------------------------------------------------------------------------

\* the checks that have called readText and have not notified yet
InFlight == {n \in 1..Len(checks) : checks[n].st # "done"}

\* every finished check has made exactly one notification, the one for what
\* readText gave it, and no other check has made any
NotificationsMatchSamples ==
    /\ \A i \in 1..Len(notifications) :
          /\ notifications[i].tick \in 1..Len(checks)
          /\ notifications[i] =
                NotificationFor(notifications[i].tick, checks[notifications[i].tick])
    /\ \A n \in 1..Len(checks) :
          Cardinality({i \in 1..Len(notifications) : notifications[i].tick = n})
             = IF checks[n].st = "done" THEN 1 ELSE 0

\* what a notification tells its receiver
Announced(note) == [kind |-> note.kind, repo |-> note.repo]

\* C1 as claimed: the notifications are one per check, and the k-th of them
\* is the one for the sample of the k-th check: detected(repo) for a
\* recognized text, noRepo for any other text, an empty one or a failed read.
\* Stated for a monitor that was started once.
C1_OneNotificationPerTickInOrder ==
    timersMade <= 1 =>
        /\ NotificationsMatchSamples
        /\ \A k \in 1..Len(notifications) :
              checks[k].st # "reading" =>
                  Announced(notifications[k])
                     = Announced(NotificationFor(k, checks[k]))

\* C2 as claimed: a check starts only after the one before it has finished,
\* so at most one check is between its readText and its notification.
\* Stated for a monitor that was started once.
C2_ChecksNeverOverlap == timersMade <= 1 => Cardinality(InFlight) <= 1

\* C3 as claimed: once stop() was the last call, no interval timer starts
\* another check.
C3_NoCheckAfterStop ==
    [][(lastCall = "stop" /\ lastCall' = "stop") => Len(checks') = Len(checks)]_vars

\* ------------------------------------------------------------------------
\* Properties of executeClone (SpecExtension, SpecCommand)
\* ------------------------------------------------------------------------

\* the git processes run n of the command has spawned
SpawnsOf(n) == {i \in 1..Len(spawns) : spawns[i].command = n}

\* resolve was called in this run
Placed(c) == c.location # None

\* readText gave this run a text that is a repository URL
Recognized(c) == c.text # None /\ c.text[1] # <<>> /\ isValid(c.text[1])

\* C11 as claimed: a command invoked while the extension holds a repository
\* hands that repository to resolve and to clone, and a command invoked while
\* it holds none calls neither.
C11_CloneUsesHeldRepository ==
    \A n \in 1..Len(commands) :
        LET c == commands[n]
        IN  /\ c.held # None =>
                  /\ Placed(c) => c.repository = c.held
                  /\ \A i \in SpawnsOf(n) : spawns[i].repository = c.held[1]
            /\ c.held = None => ~Placed(c) /\ SpawnsOf(n) = {}

\* C11: the repository a command hands to resolve and then to clone is the
\* one made of the clipboard text the command reads itself after it was
\* invoked, whatever repository the extension holds; resolve is called
\* exactly when that text is a repository URL, and without it nothing is
\* cloned.
C11_CloneUsesClipboardRead ==
    \A n \in 1..Len(commands) :
        LET c == commands[n]
        IN  /\ Placed(c) <=> Recognized(c)
            /\ Placed(c) =>
                  /\ c.repository = Some(createRepository(c.text[1]))
                  /\ c.location = Some(resolve(createRepository(c.text[1])))
            /\ \A i \in SpawnsOf(n) :
                  /\ Placed(c)
                  /\ spawns[i].repository = createRepository(c.text[1])
                  /\ spawns[i].git.gitArgs[2] = normalize(c.text[1])

\* a command invoked while a repository was held has spawned the clone of
\* another one
C11_Witness ==
    \E n \in 1..Len(commands) :
        /\ commands[n].held # None
        /\ \E i \in SpawnsOf(n) : spawns[i].repository # commands[n].held[1]

\* C12: a run of the command spawns git at most once, and only when the
\* text it read is a repository URL and the input box returned a non-empty
\* path; a run whose text is not one, or whose input box was dismissed or
\* returned the empty string, has spawned nothing, and a run whose clone
\* failed has spawned once.
C12_SpawnOnlyAfterConfirmation ==
    /\ \A i \in 1..Len(spawns) : spawns[i].command \in 1..Len(commands)
    /\ \A n \in 1..Len(commands) :
          LET c == commands[n]
          IN  /\ Cardinality(SpawnsOf(n)) <= 1
              /\ SpawnsOf(n) # {} =>
                    /\ Recognized(c)
                    /\ c.answer # None
                    /\ c.answer[1].kind = "path"
              /\ c.text # None /\ ~Recognized(c) => SpawnsOf(n) = {}
              /\ c.answer # None /\ c.answer[1].kind \in {"undefined", "empty"} =>
                    SpawnsOf(n) = {}
              /\ c.result # None => Cardinality(SpawnsOf(n)) = 1

\* a run whose clone failed is over and has spawned git once
C12_Witness ==
    \E n \in 1..Len(commands) :
        /\ commands[n].st = "done"
        /\ commands[n].result # None
        /\ ~commands[n].result[1].success
        /\ Cardinality(SpawnsOf(n)) = 1

====
